---------------------------- MODULE Spec2Model ----------------------------
(***************************************************************************)
(* A model of the YOLO code assistant (arunndata/Yolo-Explorer):           *)
(*   - the query service, backend/src/main.py ask_question, with the       *)
(*     answer synthesizer backend/src/generator.py (specification Spec);   *)
(*   - the index rebuild, backend/scripts/setup_index.py main, against the *)
(*     vector store backend/src/database.py, with queries running beside   *)
(*     it (specification SpecRebuild);                                     *)
(*   - the unit extractor, backend/src/indexer.py (specification           *)
(*     SpecExtract).                                                       *)
(* Text is modelled as a sequence of string tokens: an f-string is the     *)
(* concatenation of its pieces.                                            *)
(***************************************************************************)
EXTENDS Integers, Sequences, FiniteSets, TLC

VARIABLES
    \* ---- query service (main.py, generator.py)
    env,            \* the environment config.py reads
    pc,             \* position of the service / of the request being handled
    request,        \* the QuestionRequest being handled
    collection,     \* the documents of the MongoDB collection, in insertion order
    query_vector,   \* ask_question's query_vector
    results,        \* ask_question's results
    remote,         \* what the remote generation service did for this request
    answer,         \* ask_question's answer
    exc,            \* the exception raised inside ask_question's try block
    response,       \* what the caller of /ask receives
    calls,          \* how often each collaborator ran for this request
    stats,          \* what the latest caller of /stats received
    \* ---- index rebuild (setup_index.py, indexer.py, database.py)
    tree,           \* the source tree an extraction run walks
    rpc,            \* position of the rebuild run
    run,            \* the number of the rebuild run (its generation)
    chunks,         \* main's chunks
    inserted,       \* how many of the chunks insert_many has written
    prior,          \* the collection as it was when the run started
    observed,       \* what the latest concurrent query read
    outcome         \* what the run reported to its caller

svcVars == <<env, pc, request, query_vector, results, remote,
             answer, exc, response, calls, stats>>

runVars == <<tree, rpc, run, chunks, inserted, prior, observed, outcome>>

vars == <<svcVars, collection, runVars>>

----------------------------------------------------------------------------
(* Bounds *)

MaxDocs == 2        \* documents in the collection the service queries
MaxTopK == 2        \* largest top_k a request carries
MaxBody == 2        \* tokens in a remote error body
MaxFiles == 2       \* files in a source tree an extraction walks
MaxRebuilds == 2    \* successive rebuild runs

----------------------------------------------------------------------------
(* Text helpers *)

\* s occurs in t as a contiguous run of tokens
Contains(t, s) ==
    \E i \in 0..(Len(t) - Len(s)) : SubSeq(t, i + 1, i + Len(s)) = s

StartsWith(t, s) == Len(t) >= Len(s) /\ SubSeq(t, 1, Len(s)) = s

RECURSIVE SeqsUpTo(_, _)
SeqsUpTo(S, n) ==
    IF n = 0 THEN {<<>>}
    ELSE LET shorter == SeqsUpTo(S, n - 1)
         IN  shorter \cup {Append(s, x) : s \in shorter, x \in S}

\* str(int) for the status codes that occur
StatusStr(code) ==
    CASE code = 200 -> "200"
      [] code = 404 -> "404"
      [] code = 429 -> "429"
      [] code = 500 -> "500"
      [] code = 503 -> "503"

----------------------------------------------------------------------------
(* config.py *)

EnvValues == {"unset", "", "None", "set"}

\* Python truthiness of an environment value (os.getenv gives None or a string)
Truthy(v) == v \notin {"unset", ""}

\* config.py:29-30: the names after os.getenv's defaults
DatabaseNames == {"yolo_assistant", "custom_db"}
CollectionNames == {"code_chunks", "custom_chunks"}

\* config.py:38-39
EMBEDDING_MODEL == "sentence-transformers/all-MiniLM-L6-v2"
LLM_MODEL == "nvidia/nemotron-3-nano-30b-a3b:free"

\* a validation that looks at the API key alone
ConfigValidKeyOnly(e) == Truthy(e.OPENROUTER_API_KEY)

\* config.py:43-46: the two required variables
ConfigValid(e) == Truthy(e.OPENROUTER_API_KEY) /\ Truthy(e.MONGODB_URI)

----------------------------------------------------------------------------
(* embedder.py: the encoder is an opaque deterministic text -> vector map *)

Questions == {<<"q1">>, <<"q2">>}

\* the model's vector for a text, decided here by the text's first token
ModelEncode(text) ==
    CASE text = <<>> -> <<0, 0>>
      [] text # <<>> /\ text[1] \in {"q1", "add", "g"} -> <<1, 0>>
      [] text # <<>> /\ text[1] \in {"q2", "C"} -> <<0, 1>>
      [] OTHER -> <<1, 1>>

\* embedder.py:8-9
encode(text) == ModelEncode(text)

\* embedder.py:11-12: one vector per text, in input order
encode_batch(texts) == [i \in DOMAIN texts |-> ModelEncode(texts[i])]

----------------------------------------------------------------------------
(* indexer.py: the unit extractor *)

target_dirs == <<"models", "engine", "data">>

Node(kind, name, lineno) ==
    [kind |-> kind, name |-> name, lineno |-> lineno, code |-> "src",
     docstring |-> "", body |-> <<>>]

\* the node with the statements nested in it
Nest(node, body) == [node EXCEPT !.body = body]

File(read, parse, nodes) == [read |-> read, parse |-> parse, nodes |-> nodes]

\* class C with its method m
ClassWithMethod == Nest(Node("ClassDef", "C", 1), <<Node("FunctionDef", "m", 2)>>)

\* a function holding a class holding a method
NestedThrice ==
    Nest(Node("FunctionDef", "outer", 1),
         <<Nest(Node("ClassDef", "K", 2), <<Node("FunctionDef", "inner", 3)>>)>>)

\* read: how open/read goes (utf8: decodes; latin1: only the latin-1 fallback
\* decodes; latin1_fails: the fallback read fails too; oserror: the first open
\* fails). parse: what ast.parse does. nodes: the definitions and other nodes
\* of the module body.
FileCatalogue ==
    { File("utf8", "ok", <<Node("FunctionDef", "add", 1)>>),
      File("utf8", "ok", <<ClassWithMethod>>),
      File("utf8", "ok", <<Node("Assign", "", 1)>>),
      File("utf8", "ok", <<NestedThrice>>),
      File("utf8", "ok", <<Node("AsyncFunctionDef", "fetch", 1)>>),
      File("latin1", "ok", <<Node("FunctionDef", "g", 1)>>),
      File("utf8", "SyntaxError", <<Node("FunctionDef", "add", 1)>>),
      File("utf8", "ValueError", <<Node("FunctionDef", "add", 1)>>),
      File("latin1_fails", "ok", <<Node("FunctionDef", "g", 1)>>),
      File("oserror", "ok", <<Node("FunctionDef", "add", 1)>>) }

\* indexer.py:67-87
_extract_node(node, file_path) ==
    [file_path |-> file_path,
     name |-> node.name,
     type |-> IF node.kind = "ClassDef" THEN "class" ELSE "function",
     code |-> node.code,
     docstring |-> node.docstring,
     lineno |-> node.lineno,
     text_for_embedding |-> <<node.name, node.docstring, node.code>>]

\* ast.walk: breadth first, each node followed later by its children
RECURSIVE ast_walk(_)
ast_walk(todo) ==
    IF todo = <<>> THEN <<>>
    ELSE <<Head(todo)>> \o ast_walk(Tail(todo) \o Head(todo).body)

\* indexer.py:59-64: a chunk for each FunctionDef and ClassDef node
RECURSIVE WalkNodes(_, _)
WalkNodes(nodes, file_path) ==
    IF nodes = <<>> THEN <<>>
    ELSE (IF Head(nodes).kind \in {"FunctionDef", "ClassDef"}
          THEN <<_extract_node(Head(nodes), file_path)>>
          ELSE <<>>) \o WalkNodes(Tail(nodes), file_path)

\* indexer.py:41-65; UnicodeDecodeError(msg) with one argument is itself a
\* TypeError
_parse_file(file, file_path) ==
    IF file.read = "oserror"
    THEN [raised |-> TRUE, class |-> "OSError", chunks |-> <<>>]
    ELSE IF file.read = "latin1_fails"
    THEN [raised |-> TRUE, class |-> "TypeError", chunks |-> <<>>]
    ELSE IF file.parse = "SyntaxError"
    THEN [raised |-> TRUE, class |-> "SyntaxError", chunks |-> <<>>]
    ELSE IF file.parse # "ok"
    THEN [raised |-> TRUE, class |-> file.parse, chunks |-> <<>>]
    ELSE [raised |-> FALSE, class |-> "none",
          chunks |-> WalkNodes(ast_walk(file.nodes), file_path)]

\* the two named except clauses without the general one
ExtractCatchesNamedOnly(class) == class \in {"SyntaxError", "UnicodeDecodeError"}

\* indexer.py:27-32: the except clauses around one file: SyntaxError,
\* UnicodeDecodeError, and Exception, which every class raised here is
ExtractCatches(class) ==
    \/ class = "SyntaxError"
    \/ class = "UnicodeDecodeError"
    \/ class \in {"OSError", "TypeError", "ValueError"}

\* indexer.py:23-32: the files of one directory, from the i-th on
RECURSIVE ExtractFiles(_, _, _, _)
ExtractFiles(dir, files, i, acc) ==
    IF i > Len(files) THEN [raised |-> FALSE, class |-> "none", chunks |-> acc]
    ELSE LET p == _parse_file(files[i], <<dir, i>>)
         IN  IF ~p.raised
             THEN ExtractFiles(dir, files, i + 1, acc \o p.chunks)
             ELSE IF ExtractCatches(p.class)
             THEN ExtractFiles(dir, files, i + 1, acc)
             ELSE [raised |-> TRUE, class |-> p.class, chunks |-> acc]

\* indexer.py:16-32: the target directories, from the d-th on
RECURSIVE ExtractDirs(_, _, _)
ExtractDirs(t, d, acc) ==
    IF d > Len(target_dirs) THEN [raised |-> FALSE, class |-> "none", chunks |-> acc]
    ELSE IF ~t[d].exists THEN ExtractDirs(t, d + 1, acc)
    ELSE LET r == ExtractFiles(target_dirs[d], t[d].files, 1, acc)
         IN  IF r.raised THEN r ELSE ExtractDirs(t, d + 1, r.chunks)

\* indexer.py:14-39
extract_code_chunks(t) == ExtractDirs(t, 1, <<>>)

\* a directory holding n files, or (n = 0) a missing one
DirsOfLen(n) ==
    {[exists |-> TRUE, files |-> fs] : fs \in [1..n -> FileCatalogue]}
    \cup (IF n = 0 THEN {[exists |-> FALSE, files |-> <<>>]} ELSE {})

\* the source trees holding at most n files
TreesUpTo(n) ==
    UNION { DirsOfLen(l[1]) \X DirsOfLen(l[2]) \X DirsOfLen(l[3]) :
              l \in {m \in (0..n) \X (0..n) \X (0..n) : m[1] + m[2] + m[3] <= n} }

Trees == TreesUpTo(MaxFiles)

MissingDir == [exists |-> FALSE, files |-> <<>>]

NoTree == <<MissingDir, MissingDir, MissingDir>>

\* the source trees a rebuild run is given: none of the target directories;
\* one file with one function; one file with a class and its method; a file
\* with a syntax error beside a valid file in another directory
RunTrees ==
    { NoTree,
      <<[exists |-> TRUE,
         files |-> <<File("utf8", "ok", <<Node("FunctionDef", "add", 1)>>)>>],
        MissingDir, MissingDir>>,
      <<[exists |-> TRUE,
         files |-> <<File("utf8", "ok", <<ClassWithMethod>>)>>],
        MissingDir, MissingDir>>,
      <<[exists |-> TRUE,
         files |-> <<File("utf8", "SyntaxError", <<Node("FunctionDef", "add", 1)>>)>>],
        [exists |-> TRUE,
         files |-> <<File("latin1", "ok", <<Node("FunctionDef", "g", 1)>>)>>],
        MissingDir>> }

----------------------------------------------------------------------------
(* database.py: VectorDB.search *)

\* the similarity the store ranks by ($meta vectorSearchScore)
vectorSearchScore(q, e) == q[1] * e[1] + q[2] * e[2]

\* setup_index.py:28-30: the chunk with its vector, its embedding text deleted
WithEmbedding(chunk, embedding) ==
    [file_path |-> chunk.file_path, name |-> chunk.name, type |-> chunk.type,
     code |-> chunk.code, docstring |-> chunk.docstring, lineno |-> chunk.lineno,
     embedding |-> embedding]

\* the document insert_many stores for a chunk: the chunk and its _id
Document(chunk, id) ==
    [_id |-> id, file_path |-> chunk.file_path, name |-> chunk.name,
     type |-> chunk.type, code |-> chunk.code, docstring |-> chunk.docstring,
     lineno |-> chunk.lineno, embedding |-> chunk.embedding]

\* the documents an earlier rebuild (run 0) left in the collection
EarlierChunks ==
    LET cs == extract_code_chunks(
                 <<[exists |-> TRUE,
                    files |-> <<File("utf8", "ok", <<ClassWithMethod>>),
                                File("utf8", "ok", <<Node("FunctionDef", "add", 1)>>)>>],
                   MissingDir, MissingDir>>).chunks
    IN  [i \in DOMAIN cs |-> WithEmbedding(cs[i], encode(cs[i].text_for_embedding))]

DocCatalogue == {Document(EarlierChunks[i], <<0, i>>) : i \in DOMAIN EarlierChunks}

\* the $project stage: _id and embedding dropped, score added
Project(doc, q) ==
    [file_path |-> doc.file_path, name |-> doc.name, type |-> doc.type,
     code |-> doc.code, docstring |-> doc.docstring, lineno |-> doc.lineno,
     score |-> vectorSearchScore(q, doc.embedding)]

\* the positions of coll ranked by descending score, ties by insertion order
RECURSIVE Ranked(_, _, _)
Ranked(coll, q, left) ==
    IF left = {} THEN <<>>
    ELSE LET best == CHOOSE i \in left : \A j \in left :
                        \/ vectorSearchScore(q, coll[i].embedding)
                              > vectorSearchScore(q, coll[j].embedding)
                        \/ /\ vectorSearchScore(q, coll[i].embedding)
                                = vectorSearchScore(q, coll[j].embedding)
                           /\ i <= j
         IN  <<Project(coll[best], q)>> \o Ranked(coll, q, left \ {best})

\* database.py:29: "numCandidates"
numCandidates == 100

\* the ranking returned whole, whatever top_k is
VectorSearchUnlimited(coll, q, top_k) == Ranked(coll, q, DOMAIN coll)

\* the $vectorSearch stage with "limit": top_k
VectorSearch(coll, q, top_k) ==
    LET all == Ranked(coll, q, DOMAIN coll)
    IN  SubSeq(all, 1, IF top_k < Len(all) THEN top_k ELSE Len(all))

\* VectorDB.search: the store refuses a limit below 1 or above numCandidates;
\* a reachable store answers
search(coll, q, top_k, available) ==
    IF ~available THEN [raised |-> TRUE, class |-> "ServerSelectionTimeoutError",
                        value |-> <<>>]
    ELSE IF top_k < 1 \/ top_k > numCandidates
    THEN [raised |-> TRUE, class |-> "OperationFailure", value |-> <<>>]
    ELSE [raised |-> FALSE, class |-> "none", value |-> VectorSearch(coll, q, top_k)]

----------------------------------------------------------------------------
(* generator.py: ResponseGenerator.generate *)

BodyTokens == {"x", "y"}
Bodies == SeqsUpTo(BodyTokens, MaxBody)

NoData ==
    [truthy |-> FALSE, has_choices |-> FALSE, n_choices |-> 0,
     has_message |-> FALSE, has_content |-> FALSE, content_none |-> FALSE,
     content |-> <<>>]

\* the shapes of the decoded JSON body the code tells apart
Datas ==
    { NoData,
      [NoData EXCEPT !.truthy = TRUE],
      [NoData EXCEPT !.truthy = TRUE, !.has_choices = TRUE],
      [NoData EXCEPT !.truthy = TRUE, !.has_choices = TRUE, !.n_choices = 1],
      [NoData EXCEPT !.truthy = TRUE, !.has_choices = TRUE, !.n_choices = 1,
                     !.has_message = TRUE],
      [NoData EXCEPT !.truthy = TRUE, !.has_choices = TRUE, !.n_choices = 1,
                     !.has_message = TRUE, !.has_content = TRUE,
                     !.content_none = TRUE] }
    \cup
    { [NoData EXCEPT !.truthy = TRUE, !.has_choices = TRUE, !.n_choices = 1,
                     !.has_message = TRUE, !.has_content = TRUE, !.content = c]
        : c \in {<<>>, <<"text">>} }

NoRemote ==
    [kind |-> "none", status_code |-> 0, text |-> <<>>, json |-> "invalid",
     data |-> NoData]

\* what requests.post and the remote service can do
Remotes ==
    { [NoRemote EXCEPT !.kind = k] : k \in {"ConnectionError", "Timeout"} }
    \cup
    { [NoRemote EXCEPT !.kind = "response", !.status_code = s, !.text = b]
        : s \in {429, 500}, b \in Bodies }
    \cup
    { [NoRemote EXCEPT !.kind = "response", !.status_code = 200] }
    \cup
    { [NoRemote EXCEPT !.kind = "response", !.status_code = 200, !.json = "ok",
                       !.data = d] : d \in Datas }

ErrorPrefix == "Error generating response: "

Raise(class, msg, sent) ==
    [raised |-> TRUE, class |-> class, msg |-> msg, value |-> <<>>, sent |-> sent]

Return(value, sent) ==
    [raised |-> FALSE, class |-> "none", msg |-> <<>>, value |-> value, sent |-> sent]

\* a request sent again after a failure
SendRequestWithRetry(rem) ==
    [sent |-> IF rem.kind = "response" /\ rem.status_code = 200 THEN 1 ELSE 2,
     outcome |-> rem]

\* generator.py:84-89: the one requests.post of a call
SendRequest(rem) == [sent |-> 1, outcome |-> rem]

\* the body cut short, as the debug log line does
ApiErrorMessageTruncated(status_code, text) ==
    <<"API returned ", StatusStr(status_code), ": ">>
        \o (IF Len(text) > 1 THEN SubSeq(text, 1, 1) ELSE text)

\* generator.py:95-97: the message for a non-200 answer
ApiErrorMessage(status_code, text) ==
    <<"API returned ", StatusStr(status_code), ": ">> \o text

\* generator.py:77-126: the body of generate's try block
GenerateTry(api_key, rem) ==
    IF ~Truthy(api_key) \/ api_key = "None"
    THEN Raise("ValueError", <<"OPENROUTER_API_KEY not found in .env file!">>, 0)
    ELSE
    LET post == SendRequest(rem)
        r    == post.outcome
        n    == post.sent
        d    == r.data
    IN  IF r.kind # "response" THEN Raise(r.kind, <<r.kind>>, n)
        ELSE IF r.status_code # 200
            THEN Raise("Exception", ApiErrorMessage(r.status_code, r.text), n)
        ELSE IF r.json # "ok"
            THEN Raise("JSONDecodeError", <<"Expecting value">>, n)
        ELSE IF ~d.truthy
            THEN Raise("ValueError", <<"Empty response from API">>, n)
        ELSE IF ~d.has_choices
            THEN Raise("ValueError", <<"No 'choices' in response. Got: ", "data">>, n)
        ELSE IF d.n_choices = 0
            THEN Raise("ValueError", <<"Empty 'choices' array in response">>, n)
        ELSE IF ~d.has_message
            THEN Raise("ValueError", <<"No 'message' in choice. Got: ", "choice">>, n)
        ELSE IF ~d.has_content
            THEN Raise("ValueError", <<"No 'content' in message. Got: ", "message">>, n)
        ELSE IF d.content_none
            THEN Raise("TypeError", <<"'NoneType' object is not subscriptable">>, n)
        ELSE Return(d.content, n)

\* an except clause for ValueError alone
GenerateCatchesValueErrorOnly(class) == class = "ValueError"

\* generator.py:128-131: the classes generate's `except Exception` clause catches
GenerateCatches(class) ==
    class \in {"ValueError", "Exception", "JSONDecodeError", "TypeError",
               "ConnectionError", "Timeout"}

\* the keys _format_context and the debug loop read with chunk[...]
RequiredKeys == {"file_path", "name", "type", "lineno", "code"}

\* generator.py:165-182: one block per chunk; a chunk without a required key
\* is a KeyError
_format_context(chunks_) ==
    IF \E i \in DOMAIN chunks_ : ~(RequiredKeys \subseteq DOMAIN chunks_[i])
    THEN [raised |-> TRUE, class |-> "KeyError", blocks |-> <<>>]
    ELSE [raised |-> FALSE, class |-> "none",
          blocks |-> [i \in DOMAIN chunks_ |->
             [index |-> i, total |-> Len(chunks_),
              file |-> chunks_[i].file_path, name |-> chunks_[i].name,
              type |-> chunks_[i].type, lines |-> chunks_[i].lineno,
              purpose |-> IF "docstring" \in DOMAIN chunks_[i]
                             /\ chunks_[i].docstring # ""
                          THEN chunks_[i].docstring ELSE "No description",
              code |-> chunks_[i].code]]]

\* generator.py:16-131: generate. The context is built before the try block,
\* so an error there is not caught here; the try block's errors are.
generate(api_key, context_chunks, rem) ==
    LET context == _format_context(context_chunks)
        t == GenerateTry(api_key, rem)
    IN  IF context.raised THEN Raise(context.class, <<context.class>>, 0)
        ELSE IF t.raised /\ GenerateCatches(t.class)
        THEN Return(<<ErrorPrefix>> \o t.msg, t.sent)
        ELSE t

----------------------------------------------------------------------------
(* main.py: the service *)

NoRequest == [question |-> <<"q1">>, top_k |-> 0]
NoExc == [class |-> "none", status_code |-> 0, detail |-> <<>>]
NoResponse == [status_code |-> 0, detail |-> <<>>, answer |-> <<>>, sources |-> <<>>]
NoCalls == [encode |-> 0, search |-> 0, generate |-> 0, post |-> 0]
NoStats == [called |-> FALSE, available |-> TRUE, attr |-> "none",
            raised |-> FALSE, body |-> [status |-> "none"]]

\* the collections the service may query: each document (its _id) at most once
Collections ==
    {c \in SeqsUpTo(DocCatalogue, MaxDocs) :
        \A i, j \in DOMAIN c : c[i] = c[j] => i = j}

NoObserved == [taken |-> FALSE, run |-> 0, at |-> "idle", population |-> <<>>,
               results |-> <<>>]
NoOutcome == [kind |-> "none", count |-> 0]

\* no rebuild is running
RunIdle ==
    /\ tree = NoTree
    /\ rpc = "idle"
    /\ run = 0
    /\ chunks = <<>>
    /\ inserted = 0
    /\ prior = <<>>
    /\ observed = NoObserved
    /\ outcome = NoOutcome

Init ==
    /\ env \in [OPENROUTER_API_KEY : EnvValues, MONGODB_URI : {"unset", "", "set"},
                DATABASE_NAME : DatabaseNames, COLLECTION_NAME : CollectionNames]
    /\ pc = "boot"
    /\ request = NoRequest
    /\ collection \in Collections
    /\ query_vector = <<0, 0>>
    /\ results = <<>>
    /\ remote = NoRemote
    /\ answer = <<>>
    /\ exc = NoExc
    /\ response = NoResponse
    /\ calls = NoCalls
    /\ stats = NoStats
    /\ RunIdle

\* config.py:43-46 and main.py:13-16: the module either imports or raises
Startup ==
    /\ pc = "boot"
    /\ pc' = IF ConfigValid(env) THEN "idle" ELSE "fatal"
    /\ UNCHANGED <<env, request, collection, query_vector, results, remote,
                   answer, exc, response, calls>>
    /\ UNCHANGED <<stats, runVars>>

\* main.py:18-20, 31-32: a request that passes QuestionRequest's validation
Receive ==
    /\ pc \in {"idle", "responded"}
    /\ \E q \in Questions, k \in (-1)..MaxTopK :
          request' = [question |-> q, top_k |-> k]
    /\ pc' = "received"
    /\ query_vector' = <<0, 0>>
    /\ results' = <<>>
    /\ remote' = NoRemote
    /\ answer' = <<>>
    /\ exc' = NoExc
    /\ response' = NoResponse
    /\ calls' = NoCalls
    /\ UNCHANGED <<env, collection>>
    /\ UNCHANGED <<stats, runVars>>

\* main.py:35: embedder.encode
EncodeQuestion ==
    /\ pc = "received"
    /\ calls' = [calls EXCEPT !.encode = @ + 1]
    /\ \/ /\ query_vector' = encode(request.question)
          /\ pc' = "encoded"
          /\ exc' = exc
       \/ /\ exc' = [class |-> "RuntimeError", status_code |-> 0,
                     detail |-> <<"RuntimeError">>]
          /\ pc' = "except"
          /\ query_vector' = query_vector
    /\ UNCHANGED <<env, request, collection, results, remote, answer, response>>
    /\ UNCHANGED <<stats, runVars>>

\* main.py:38-41: db.search, and the not-found raise
SearchStore ==
    /\ pc = "encoded"
    /\ calls' = [calls EXCEPT !.search = @ + 1]
    /\ \E available \in BOOLEAN :
         LET r == search(collection, query_vector, request.top_k, available)
         IN  IF r.raised
             THEN /\ exc' = [class |-> r.class, status_code |-> 0,
                             detail |-> <<r.class>>]
                  /\ pc' = "except"
                  /\ results' = results
             ELSE IF r.value = <<>>
             THEN /\ exc' = [class |-> "HTTPException", status_code |-> 404,
                             detail |-> <<"No relevant code found">>]
                  /\ pc' = "except"
                  /\ results' = r.value
             ELSE /\ results' = r.value
                  /\ pc' = "searched"
                  /\ exc' = exc
    /\ UNCHANGED <<env, request, collection, query_vector, remote, answer, response>>
    /\ UNCHANGED <<stats, runVars>>

\* main.py:44: generator.generate
Generate ==
    /\ pc = "searched"
    /\ \E rem \in Remotes :
         LET g == generate(env.OPENROUTER_API_KEY, results, rem)
         IN  /\ remote' = IF g.sent = 0 THEN NoRemote ELSE rem
             /\ calls' = [calls EXCEPT !.generate = @ + 1, !.post = @ + g.sent]
             /\ IF g.raised
                THEN /\ exc' = [class |-> g.class, status_code |-> 0, detail |-> g.msg]
                     /\ pc' = "except"
                     /\ answer' = answer
                ELSE /\ answer' = g.value
                     /\ pc' = "generated"
                     /\ exc' = exc
    /\ UNCHANGED <<env, request, collection, query_vector, results, response>>
    /\ UNCHANGED <<stats, runVars>>

Source(r) == [file |-> r.file_path, name |-> r.name, type |-> r.type, line |-> r.lineno]

\* main.py:47-61: the sources and the AnswerResponse
Respond ==
    /\ pc = "generated"
    /\ response' = [status_code |-> 200, detail |-> <<>>, answer |-> answer,
                    sources |-> [i \in DOMAIN results |-> Source(results[i])]]
    /\ pc' = "responded"
    /\ UNCHANGED <<env, request, collection, query_vector, results, remote,
                   answer, exc, calls>>
    /\ UNCHANGED <<stats, runVars>>

\* str(e) of the exception the handler caught
ExcStr(e) ==
    IF e.class = "HTTPException"
    THEN <<StatusStr(e.status_code), ": ">> \o e.detail
    ELSE e.detail

\* the classes ask_question's `except Exception` clause catches: HTTPException
\* is a subclass of Exception
AskCatches(class) ==
    class \in {"HTTPException", "RuntimeError", "ServerSelectionTimeoutError",
               "OperationFailure", "ValueError", "Exception", "JSONDecodeError",
               "TypeError", "ConnectionError", "Timeout", "KeyError"}

\* main.py:63-64: the handler's except clause; an HTTPException it does not
\* catch reaches the framework, which answers with its status
Except ==
    /\ pc = "except"
    /\ response' =
          IF AskCatches(exc.class)
          THEN [NoResponse EXCEPT !.status_code = 500, !.detail = ExcStr(exc)]
          ELSE IF exc.class = "HTTPException"
          THEN [NoResponse EXCEPT !.status_code = exc.status_code,
                                  !.detail = exc.detail]
          ELSE [NoResponse EXCEPT !.status_code = 500,
                                  !.detail = <<"Internal Server Error">>]
    /\ pc' = "responded"
    /\ UNCHANGED <<env, request, collection, query_vector, results, remote,
                   answer, exc, calls>>
    /\ UNCHANGED <<stats, runVars>>

----------------------------------------------------------------------------
(* main.py get_stats: the /stats operation *)

\* which name attribute the loaded SentenceTransformer carries
ModelAttrs == {"model_name", "_model_name", "none"}

\* main.py:78-83: the embedding model's name
EmbeddingModelName(attr) ==
    IF attr \in {"model_name", "_model_name"} THEN EMBEDDING_MODEL
    ELSE "all-MiniLM-L6-v2"

\* main.py:75-97: the try block; count_documents raises on an unreachable store
StatsTry(coll, e, available, attr) ==
    IF ~available
    THEN [raised |-> TRUE, class |-> "ServerSelectionTimeoutError",
          body |-> [status |-> "none"]]
    ELSE [raised |-> FALSE, class |-> "none",
          body |-> [total_chunks |-> Len(coll),
                    model |-> LLM_MODEL,
                    embedding_model |-> EmbeddingModelName(attr),
                    database |-> <<"MongoDB Atlas (", e.DATABASE_NAME, ")">>,
                    collection |-> e.COLLECTION_NAME,
                    last_indexed |-> "now",
                    status |-> "online"]]

\* an except clause for HTTPException alone
StatsCatchesHTTPOnly(class) == class = "HTTPException"

\* main.py:98: except Exception
StatsCatches(class) == TRUE

\* main.py:70-108
get_stats(coll, e, available, attr) ==
    LET t == StatsTry(coll, e, available, attr)
    IN  IF t.raised /\ StatsCatches(t.class)
        THEN [raised |-> FALSE, class |-> "none",
              body |-> [total_chunks |-> 0,
                        model |-> LLM_MODEL,
                        embedding_model |-> "unknown",
                        database |-> <<"MongoDB Atlas">>,
                        collection |-> "code_chunks",
                        error |-> <<t.class>>,
                        status |-> "error"]]
        ELSE t

\* main.py:70-71: a caller of /stats, at any time the service is up
GetStats ==
    /\ pc \notin {"boot", "fatal"}
    /\ \E available \in BOOLEAN, attr \in ModelAttrs :
          LET r == get_stats(collection, env, available, attr)
          IN  stats' = [called |-> TRUE, available |-> available, attr |-> attr,
                        raised |-> r.raised, body |-> r.body]
    /\ UNCHANGED <<env, pc, request, collection, query_vector, results, remote,
                   answer, exc, response, calls>>
    /\ UNCHANGED runVars

----------------------------------------------------------------------------
(* setup_index.py main and database.py: the index rebuild *)

\* a clear that deletes nothing
clear_collection_noop(coll) == coll

\* database.py:49-50: delete_many({})
clear_collection(coll) == <<>>

\* a loop that pairs the chunks with the vectors in reverse order
AttachEmbeddingsReversed(cs) ==
    LET texts == [i \in DOMAIN cs |-> cs[i].text_for_embedding]
        embeddings == encode_batch(texts)
    IN  [i \in DOMAIN cs |-> WithEmbedding(cs[i], embeddings[Len(cs) + 1 - i])]

\* setup_index.py:24-30: the texts, their vectors, and the zip loop
AttachEmbeddings(cs) ==
    LET texts == [i \in DOMAIN cs |-> cs[i].text_for_embedding]
        embeddings == encode_batch(texts)
    IN  [i \in DOMAIN cs |-> WithEmbedding(cs[i], embeddings[i])]

\* the service is not modelled while a rebuild is
SvcIdle ==
    /\ env = [OPENROUTER_API_KEY |-> "set", MONGODB_URI |-> "set",
              DATABASE_NAME |-> "yolo_assistant", COLLECTION_NAME |-> "code_chunks"]
    /\ pc = "idle"
    /\ request = NoRequest
    /\ query_vector = <<0, 0>>
    /\ results = <<>>
    /\ remote = NoRemote
    /\ answer = <<>>
    /\ exc = NoExc
    /\ response = NoResponse
    /\ calls = NoCalls
    /\ stats = NoStats

\* the collection holds nothing, or what an earlier rebuild left
InitRebuild ==
    /\ SvcIdle
    /\ collection \in {<<>>, [i \in DOMAIN EarlierChunks |->
                                  Document(EarlierChunks[i], <<0, i>>)]}
    /\ tree = NoTree
    /\ rpc = "idle"
    /\ run = 0
    /\ chunks = <<>>
    /\ inserted = 0
    /\ prior = collection
    /\ observed = NoObserved
    /\ outcome = NoOutcome

\* setup_index.py:11-15: the run starts; a missing root ends it with an error
StartRun ==
    /\ rpc \in {"idle", "returned", "success", "crashed"}
    /\ run < MaxRebuilds
    /\ run' = run + 1
    /\ prior' = collection
    /\ chunks' = <<>>
    /\ inserted' = 0
    /\ observed' = NoObserved
    /\ \/ /\ rpc' = "started"
          /\ outcome' = NoOutcome
       \/ /\ rpc' = "returned"
          /\ outcome' = [kind |-> "root_missing", count |-> 0]
    /\ UNCHANGED <<svcVars, collection, tree>>

\* setup_index.py:17-20: indexer.extract_code_chunks(); walking a directory
\* (indexer.py:23, outside the try) may raise
ExtractRun ==
    /\ rpc = "started"
    /\ \/ \E t \in RunTrees :
            LET r == extract_code_chunks(t)
            IN  IF r.raised
                THEN /\ rpc' = "crashed"
                     /\ chunks' = chunks
                     /\ outcome' = [kind |-> r.class, count |-> 0]
                ELSE /\ rpc' = "extracted"
                     /\ chunks' = r.chunks
                     /\ outcome' = outcome
       \/ /\ rpc' = "crashed"
          /\ chunks' = chunks
          /\ outcome' = [kind |-> "OSError", count |-> 0]
    /\ UNCHANGED <<svcVars, collection, tree, run, inserted, prior, observed>>

\* a run that clears the collection before it embeds
EmbedRunClearsFirst ==
    /\ rpc = "extracted"
    /\ collection' = clear_collection(collection)
    /\ \/ /\ chunks' = AttachEmbeddings(chunks)
          /\ rpc' = "embedded"
          /\ outcome' = outcome
       \/ /\ rpc' = "crashed"
          /\ outcome' = [kind |-> "RuntimeError", count |-> 0]
          /\ chunks' = chunks
    /\ UNCHANGED <<svcVars, tree, run, inserted, prior, observed>>

\* setup_index.py:22-30: Embedder(), encode_batch and the zip loop; loading or
\* running the model may raise
EmbedRun ==
    /\ rpc = "extracted"
    /\ \/ /\ chunks' = AttachEmbeddings(chunks)
          /\ rpc' = "embedded"
          /\ outcome' = outcome
       \/ /\ rpc' = "crashed"
          /\ outcome' = [kind |-> "RuntimeError", count |-> 0]
          /\ chunks' = chunks
    /\ UNCHANGED <<svcVars, collection, tree, run, inserted, prior, observed>>

\* setup_index.py:33-34: VectorDB() and db.clear_collection(); the store may
\* be unreachable
ClearRun ==
    /\ rpc = "embedded"
    /\ \/ /\ collection' = clear_collection(collection)
          /\ rpc' = "cleared"
          /\ outcome' = outcome
       \/ /\ rpc' = "crashed"
          /\ outcome' = [kind |-> "ServerSelectionTimeoutError", count |-> 0]
          /\ collection' = collection
    /\ UNCHANGED <<svcVars, tree, run, chunks, inserted, prior, observed>>

\* database.py:18-20, setup_index.py:35: insert_many writes the documents one
\* after the other, each with its _id, outside any transaction
InsertOne ==
    /\ rpc = "cleared"
    /\ inserted < Len(chunks)
    /\ inserted' = inserted + 1
    /\ collection' = Append(collection,
                            Document(chunks[inserted + 1], <<run, inserted + 1>>))
    /\ UNCHANGED <<svcVars, tree, rpc, run, chunks, prior, observed, outcome>>

\* insert_many fails before the last document is written
InsertFails ==
    /\ rpc = "cleared"
    /\ inserted < Len(chunks)
    /\ rpc' = "crashed"
    /\ outcome' = [kind |-> "BulkWriteError", count |-> 0]
    /\ UNCHANGED <<svcVars, collection, tree, run, chunks, inserted, prior, observed>>

\* database.py:19 (nothing to insert) or insert_many returned;
\* setup_index.py:37: "Success! Indexed {len(chunks)} code chunks"
FinishRun ==
    /\ rpc = "cleared"
    /\ inserted = Len(chunks)
    /\ rpc' = "success"
    /\ outcome' = [kind |-> "success", count |-> Len(chunks)]
    /\ UNCHANGED <<svcVars, collection, tree, run, chunks, inserted, prior, observed>>

\* database.py:22-47: a query of the service reads the collection as it is
Query ==
    /\ \E q \in Questions, k \in 1..MaxTopK :
         observed' = [taken |-> TRUE, run |-> run, at |-> rpc,
                      population |-> collection,
                      results |-> search(collection, encode(q), k, TRUE).value]
    /\ UNCHANGED <<svcVars, collection, tree, rpc, run, chunks, inserted, prior, outcome>>

NextRebuild ==
    \/ StartRun
    \/ ExtractRun
    \/ EmbedRun
    \/ ClearRun
    \/ InsertOne
    \/ InsertFails
    \/ FinishRun
    \/ Query

SpecRebuild == InitRebuild /\ [][NextRebuild]_vars

----------------------------------------------------------------------------
(* indexer.py alone: one extraction run over a source tree *)

InitExtract ==
    /\ SvcIdle
    /\ collection = <<>>
    /\ tree \in Trees
    /\ rpc = "started"
    /\ run = 1
    /\ chunks = <<>>
    /\ inserted = 0
    /\ prior = <<>>
    /\ observed = NoObserved
    /\ outcome = NoOutcome

ExtractTree ==
    /\ rpc = "started"
    /\ LET r == extract_code_chunks(tree)
       IN  /\ chunks' = r.chunks
           /\ rpc' = IF r.raised THEN "crashed" ELSE "extracted"
           /\ outcome' = IF r.raised THEN [kind |-> r.class, count |-> 0]
                         ELSE [kind |-> "extracted", count |-> Len(r.chunks)]
    /\ UNCHANGED <<svcVars, collection, tree, run, inserted, prior, observed>>

NextExtract == ExtractTree

SpecExtract == InitExtract /\ [][NextExtract]_vars

----------------------------------------------------------------------------

Next ==
    \/ Startup
    \/ Receive
    \/ EncodeQuestion
    \/ SearchStore
    \/ Generate
    \/ Respond
    \/ Except
    \/ GetStats

Spec == Init /\ [][Next]_vars


----------------------------------------------------------------------------
(* The claims about the query service, checked under Spec *)

\* the vector search of the request returned an empty list (it did not raise)
EmptyRetrieval ==
    /\ calls.search = 1
    /\ results = <<>>
    /\ exc.class \notin {"ServerSelectionTimeoutError", "OperationFailure",
                         "RuntimeError"}

\* C1: whenever the vector search returns an empty list, the caller of
\* ask_question receives the not-found outcome (404, 'No relevant code
\* found'), never the generic 500 outcome of a service failure.
C1_EmptyRetrievalIsNotFound ==
    (pc = "responded" /\ EmptyRetrieval)
        => /\ response.status_code = 404
           /\ response.detail = <<"No relevant code found">>

\* C2: a request whose top_k is zero or negative is rejected before
\* embedder.encode, db.search, generator.generate or the remote call runs.
C2_NonPositiveTopKRejectedEarly ==
    (pc \notin {"boot", "fatal", "idle"} /\ request.top_k <= 0)
        => /\ calls.encode = 0
           /\ calls.search = 0
           /\ calls.generate = 0
           /\ calls.post = 0

\* the API key generate takes for missing
KeyMissing == ~Truthy(env.OPENROUTER_API_KEY) \/ env.OPENROUTER_API_KEY = "None"

\* the remote call of this request failed in one of the ways C3 lists
RemoteFailure ==
    \/ KeyMissing
    \/ remote.kind \in {"ConnectionError", "Timeout"}
    \/ /\ remote.kind = "response"
       /\ \/ remote.status_code # 200
          \/ remote.json # "ok"
          \/ ~remote.data.truthy
          \/ ~remote.data.has_choices
          \/ remote.data.n_choices = 0
          \/ ~remote.data.has_message
          \/ ~remote.data.has_content

\* C3: whatever way the remote call fails (transport failure, timeout,
\* non-200 status, unparseable or empty body, missing or empty 'choices',
\* missing 'message', missing 'content', missing API key), generate returns
\* a string that begins with 'Error generating response: ' and no exception
\* escapes it into ask_question.
C3_GenerateReturnsErrorString ==
    (calls.generate = 1 /\ RemoteFailure)
        => /\ exc = NoExc
           /\ pc \in {"generated", "responded"}
           /\ StartsWith(answer, <<ErrorPrefix>>)

C3_Witness ==
    /\ pc = "responded"
    /\ calls.post = 1
    /\ remote.kind = "response" /\ remote.status_code = 200
    /\ remote.json = "ok" /\ remote.data.has_message /\ ~remote.data.has_content
    /\ response.status_code = 200
    /\ StartsWith(response.answer, <<ErrorPrefix>>)

\* C4: when the remote service answers with a status other than 200, the
\* string generate returns holds that status code and the whole response
\* body, unchanged, and no exception escapes generate.
C4_ErrorStatusAndBodyReported ==
    (calls.post = 1 /\ remote.kind = "response" /\ remote.status_code # 200)
        => /\ exc = NoExc
           /\ Contains(answer, <<StatusStr(remote.status_code)>>)
           /\ Contains(answer, remote.text)
           /\ answer = <<ErrorPrefix, "API returned ",
                         StatusStr(remote.status_code), ": ">> \o remote.text

C4_Witness ==
    /\ pc = "responded"
    /\ calls.post = 1
    /\ remote.kind = "response" /\ remote.status_code = 429
    /\ remote.text = <<"x", "y">>
    /\ response.status_code = 200
    /\ Contains(response.answer, <<"429">>)
    /\ Contains(response.answer, <<"x", "y">>)

\* the number of times the error prefix occurs in t
RECURSIVE CountPrefix(_)
CountPrefix(t) ==
    IF t = <<>> THEN 0
    ELSE (IF Head(t) = ErrorPrefix THEN 1 ELSE 0) + CountPrefix(Tail(t))

\* C9: a call of generate sends at most one request to the remote service;
\* after a failed request no second one is sent and the failure is reported
\* once; with the API key missing no request is sent at all.
C9_AtMostOneRequest ==
    /\ calls.post <= calls.generate
    /\ calls.generate <= 1
    /\ (calls.generate = 1 /\ KeyMissing) => calls.post = 0
    /\ (calls.generate = 1 /\ RemoteFailure) => CountPrefix(answer) = 1

C9_Witness ==
    /\ pc = "responded"
    /\ calls.generate = 1
    /\ calls.post = 1
    /\ remote.kind = "ConnectionError"
    /\ CountPrefix(response.answer) = 1

\* C10: a request with a non-empty retrieval set never gets an empty answer
\* string back as a successful response.
C10_AnswerNeverEmpty ==
    (pc = "responded" /\ response.status_code = 200 /\ results # <<>>)
        => response.answer # <<>>

\* the search of this request returned (it did not raise)
SearchReturned ==
    /\ calls.search = 1
    /\ exc.class \notin {"ServerSelectionTimeoutError", "OperationFailure",
                         "RuntimeError"}

\* C11: for every query vector and every k >= 1, VectorDB.search returns at
\* most k results, ordered by non-increasing similarity score.
C11_AtMostKSortedByScore ==
    (SearchReturned /\ request.top_k >= 1)
        => /\ Len(results) <= request.top_k
           /\ \A i, j \in DOMAIN results :
                 i < j => results[i].score >= results[j].score

\* two results, the better one stored after the worse one
C11_Witness ==
    /\ SearchReturned
    /\ request.top_k = 2
    /\ Len(results) = 2
    /\ results[1].score > results[2].score
    /\ results[1].name = collection[2].name

\* the count sub-query of the latest /stats call failed
CountFailed == stats.called /\ ~stats.available

\* C12 as stated: get_stats never fails as a whole, and when a sub-query
\* fails the values that could be obtained (the model identifiers, the store
\* identifiers) are still reported next to the default of the failed one.
C12_ObtainableValuesStillReported ==
    CountFailed
        => /\ ~stats.raised
           /\ stats.body.total_chunks = 0
           /\ stats.body.model = LLM_MODEL
           /\ stats.body.embedding_model = EmbeddingModelName(stats.attr)
           /\ Contains(stats.body.database, <<env.DATABASE_NAME>>)
           /\ stats.body.collection = env.COLLECTION_NAME

\* C12 amended: get_stats never fails as a whole; when the count fails it
\* returns status "error" with the error text, the count replaced by 0, the
\* configured LLM identifier, and fixed defaults for the embedding model and
\* the store identifiers; when nothing fails it reports the count and the
\* identifiers it read.
C12_DegradesToDefaults ==
    stats.called
        => /\ ~stats.raised
           /\ stats.body.model = LLM_MODEL
           /\ CountFailed
                => /\ stats.body.status = "error"
                   /\ stats.body.total_chunks = 0
                   /\ stats.body.embedding_model = "unknown"
                   /\ stats.body.database = <<"MongoDB Atlas">>
                   /\ stats.body.collection = "code_chunks"
                   /\ stats.body.error # <<>>
           /\ ~CountFailed
                => /\ stats.body.status = "online"
                   /\ stats.body.total_chunks = Len(collection)
                   /\ stats.body.embedding_model = EmbeddingModelName(stats.attr)
                   /\ Contains(stats.body.database, <<env.DATABASE_NAME>>)
                   /\ stats.body.collection = env.COLLECTION_NAME

\* the count failed over a non-empty, custom-named collection
C12_Witness ==
    /\ CountFailed
    /\ collection # <<>>
    /\ env.COLLECTION_NAME = "custom_chunks"
    /\ stats.body.status = "error"

\* the service has handled, or is handling, a request
Serving ==
    \/ pc \notin {"boot", "fatal"}
    \/ calls # NoCalls
    \/ response # NoResponse
    \/ stats.called

----------------------------------------------------------------------------
(* The claims about the index rebuild, checked under SpecRebuild *)

\* the documents the run is to leave in the collection
NewPopulation == [i \in DOMAIN chunks |-> Document(chunks[i], <<run, i>>)]

\* C5: a query running beside a rebuild reads the complete old population or
\* the complete new one, never an empty, mixed or partly loaded one.
C5_QuerySnapshotConsistent ==
    (observed.taken /\ observed.run = run /\ run > 0)
        => \/ observed.population = prior
           \/ /\ rpc \in {"cleared", "success"}
              /\ observed.at \in {"cleared", "success"}
              /\ observed.population = NewPopulation

\* C6: once a rebuild has completed, the collection holds exactly the newly
\* extracted chunks, and a query made then reads only documents of this
\* run, none of an earlier one; so after every one of successive rebuilds.
C6_RebuildLeavesOnlyNewPopulation ==
    rpc = "success"
        => /\ collection = NewPopulation
           /\ \A i \in DOMAIN collection : collection[i]._id[1] = run
           /\ (observed.taken /\ observed.at = "success")
                 => /\ \A i \in DOMAIN observed.population :
                          observed.population[i]._id[1] = run
                    /\ \A j \in DOMAIN observed.results :
                          \E i \in DOMAIN chunks :
                             /\ observed.results[j].file_path = chunks[i].file_path
                             /\ observed.results[j].name = chunks[i].name
                             /\ observed.results[j].lineno = chunks[i].lineno

C6_Witness ==
    /\ rpc = "success"
    /\ run = 2
    /\ prior # <<>>
    /\ prior[1]._id[1] = 1
    /\ chunks # <<>>
    /\ observed.taken /\ observed.run = run /\ observed.at = "success"
    /\ observed.results # <<>>

\* C7: a rebuild run that extracts zero chunks ends in a failure reported to
\* the caller, never in success, and the empty chunk set never becomes the
\* index population.
C7_ZeroChunksIsFailure ==
    (rpc = "success" \/ outcome.kind = "success")
        => /\ chunks # <<>>
           /\ collection # <<>>

\* the run is past the zip loop: its chunks are what the store is handed
PastEmbedding ==
    \/ rpc \in {"embedded", "cleared", "success"}
    \/ rpc = "crashed"
         /\ outcome.kind \in {"ServerSelectionTimeoutError", "BulkWriteError"}

\* the encoder's output for the record's own text (indexer.py:83)
OwnVector(c) == ModelEncode(<<c.name, c.docstring, c.code>>)

\* C15: every record handed to the store carries, under 'embedding', the
\* encoder's output for that chunk's own text (the i-th vector with the i-th
\* chunk), and no 'text_for_embedding' field.
C15_EmbeddingIsOfOwnText ==
    PastEmbedding
        => /\ \A i \in DOMAIN chunks :
                 /\ "embedding" \in DOMAIN chunks[i]
                 /\ chunks[i].embedding = OwnVector(chunks[i])
                 /\ "text_for_embedding" \notin DOMAIN chunks[i]
           /\ rpc \in {"cleared", "success"}
                => \A j \in DOMAIN collection :
                     /\ collection[j].name = chunks[j].name
                     /\ collection[j].embedding = OwnVector(chunks[j])
                     /\ "text_for_embedding" \notin DOMAIN collection[j]

\* two chunks with different vectors were stored
C15_Witness ==
    /\ rpc = "success"
    /\ Len(chunks) = 2
    /\ Len(collection) = 2
    /\ collection[1].embedding # collection[2].embedding
    /\ collection[2].embedding = OwnVector(chunks[2])

\* the run ended, or stands, before the upload step
BeforeUpload ==
    \/ rpc \in {"started", "extracted", "embedded", "returned"}
    \/ rpc = "crashed" /\ outcome.kind \in {"OSError", "RuntimeError"}

\* C16: the collection is cleared only after extraction and embedding have
\* completed: if the root is missing, or extraction or embedding raises, the
\* run ends with nothing cleared and nothing inserted, the stored population
\* being what it was before the run.
C16_NoClearBeforeEmbeddingDone ==
    (run > 0 /\ BeforeUpload) => (collection = prior /\ inserted = 0)

\* embedding raised in a run over a populated collection
C16_Witness ==
    /\ rpc = "crashed"
    /\ outcome.kind = "RuntimeError"
    /\ prior # <<>>
    /\ collection = prior

----------------------------------------------------------------------------
(* The claims about the unit extractor, checked under SpecExtract *)

\* a file that reads and parses
ValidFile(f) == f.read \in {"utf8", "latin1"} /\ f.parse = "ok"

\* the definitions of file i of directory d
DefsOf(d, i) ==
    LET walked == ast_walk(tree[d].files[i].nodes)
    IN  {n \in DOMAIN walked : walked[n].kind \in {"FunctionDef", "ClassDef"}}

\* the places <<d, i, n>> of the definitions of the valid files
ValidDefs ==
    UNION { UNION { {<<d, i, n>> : n \in DefsOf(d, i)}
                      : i \in {j \in DOMAIN tree[d].files :
                                  ValidFile(tree[d].files[j])} }
              : d \in {e \in DOMAIN tree : tree[e].exists} }

\* chunk c is the chunk of the definition at place p
ChunkOf(c, p) ==
    LET node == ast_walk(tree[p[1]].files[p[2]].nodes)[p[3]]
    IN  /\ c.file_path = <<target_dirs[p[1]], p[2]>>
        /\ c.name = node.name
        /\ c.lineno = node.lineno

\* C8: a file that fails (syntax error, encoding or read failure, any other
\* error) is skipped alone: the run does not raise and returns exactly the
\* chunks of all the valid files of all existing target directories.
C8_FailingFileSkippedAlone ==
    rpc # "started"
        => /\ rpc = "extracted"
           /\ Len(chunks) = Cardinality(ValidDefs)
           /\ \A p \in ValidDefs : \E i \in DOMAIN chunks : ChunkOf(chunks[i], p)
           /\ \A i \in DOMAIN chunks : \E p \in ValidDefs : ChunkOf(chunks[i], p)

C8_Witness ==
    /\ rpc = "extracted"
    /\ tree[1].exists /\ Len(tree[1].files) = 2
    /\ tree[1].files[1].parse = "SyntaxError"
    /\ ValidFile(tree[1].files[2])
    /\ Len(chunks) = 2
    /\ chunks[1].file_path = <<"models", 2>>

\* the syntactic kinds that are function or class definitions
DefinitionKinds == {"FunctionDef", "AsyncFunctionDef", "ClassDef"}

\* every node of the statements, at any nesting depth
RECURSIVE Descendants(_)
Descendants(nodes) ==
    IF nodes = <<>> THEN {}
    ELSE {Head(nodes)} \cup Descendants(Head(nodes).body)
                       \cup Descendants(Tail(nodes))

DefinitionsIn(f) == {n \in Descendants(f.nodes) : n.kind \in DefinitionKinds}

\* the chunks extracted from file i of directory d
ChunksFrom(d, i) ==
    {k \in DOMAIN chunks : chunks[k].file_path = <<target_dirs[d], i>>}

\* chunk c is the chunk of definition node n
ChunkOfDefinition(c, n) ==
    /\ c.name = n.name
    /\ c.lineno = n.lineno
    /\ c.type = IF n.kind = "ClassDef" THEN "class" ELSE "function"

\* C14: for every successfully parsed file the extractor returns exactly one
\* chunk for every function definition and every class definition of the
\* syntax tree, at any nesting depth, with kind 'class' for class definitions
\* and 'function' otherwise; a file holding only `def add` yields exactly one
\* chunk named 'add', of kind 'function', starting at line 1.
C14_OneChunkPerDefinition ==
    rpc = "extracted"
        => \A d \in DOMAIN tree : \A i \in DOMAIN tree[d].files :
             LET f == tree[d].files[i]
             IN  (tree[d].exists /\ ValidFile(f))
                   => /\ Cardinality(ChunksFrom(d, i))
                           = Cardinality(DefinitionsIn(f))
                      /\ \A n \in DefinitionsIn(f) :
                           Cardinality({k \in ChunksFrom(d, i) :
                                          ChunkOfDefinition(chunks[k], n)}) = 1
                      /\ f.nodes = <<Node("FunctionDef", "add", 1)>>
                           => \E k \in ChunksFrom(d, i) :
                                /\ ChunksFrom(d, i) = {k}
                                /\ chunks[k].name = "add"
                                /\ chunks[k].type = "function"
                                /\ chunks[k].lineno = 1

\* what the extractor does deliver: one chunk for every def and class node,
\* at any depth, coroutine definitions (async def) left out
PlainDefinitionsEachOneChunk ==
    rpc = "extracted"
        => \A d \in DOMAIN tree : \A i \in DOMAIN tree[d].files :
             LET f == tree[d].files[i]
                 plain == {n \in DefinitionsIn(f) : n.kind # "AsyncFunctionDef"}
             IN  (tree[d].exists /\ ValidFile(f))
                   => /\ Cardinality(ChunksFrom(d, i)) = Cardinality(plain)
                      /\ \A n \in plain :
                           Cardinality({k \in ChunksFrom(d, i) :
                                          ChunkOfDefinition(chunks[k], n)}) = 1

=============================================================================
